---- MODULE Spec2Model ----
(***************************************************************************)
(* A model of firedrake/plot.py: the dispatch of plot, the multi-function  *)
(* slider/Play widget of _plot_mult, the notebook renderer, the reference  *)
(* sampling grids, the field evaluator, 1D point assembly, the 2D          *)
(* triangulation builder and the Bezier reconstruction.                    *)
(*                                                                         *)
(* Conventions.  Every error of the module is a RuntimeError told apart by *)
(* its message; the model names the kinds:                                 *)
(*   "MissingDependency"  "Matplotlib not importable, is it installed?"    *)
(*   "Unsupported"        "Unsupported functionality"                      *)
(*   "NotInNotebook"      "Not in notebook"                                *)
(*   "KeyError"           a failed dictionary lookup (codes[deg])          *)
(*   "IndexError"         a failed sequence index (functions[val])         *)
(* A call's result is a record [ret, err, calls]: ret is "figure", "None"  *)
(* or "raise"; err the kind raised; calls the renderers entered, in order. *)
(* Real numbers are exact fractions: a coordinate is a numerator over a    *)
(* denominator the operation names.                                        *)
(***************************************************************************)
EXTENDS Integers, Sequences, FiniteSets, Bags, TLC

VARIABLES mpl, ipy, call, widget, play

vars == <<mpl, ipy, call, widget, play>>

\* ----------------------------------------------------------------- bounds
MaxDegree == 5
MaxPlotPoints == 5
MaxFuncs == 2
MaxCells == 2
MaxNumPoints == 3
MaxSamplePoints == 256

\* ------------------------------------------------------------ small helpers
Figure(calls) == [ret |-> "figure", err |-> "", calls |-> calls]
ReturnNone(calls) == [ret |-> "None", err |-> "", calls |-> calls]
Raise(kind, calls) == [ret |-> "raise", err |-> kind, calls |-> calls]

\* ------------------------------------------------------- functions and meshes
\* A mesh has cells of one reference shape; the shape fixes the topological
\* dimension, and the geometric dimension is at least the topological one.
CellDim(cell) ==
    CASE cell = "interval" -> 1
      [] cell = "triangle" -> 2
      [] cell = "quadrilateral" -> 2
      [] cell = "tetrahedron" -> 3
      [] cell = "hexahedron" -> 3

Cells == {"interval", "triangle", "quadrilateral", "tetrahedron", "hexahedron"}

Functions ==
    { [gdim |-> g, tdim |-> CellDim(c), cell |-> c, degree |-> d] :
        g \in 1..3, c \in {k \in Cells : CellDim(k) <= 3}, d \in 0..MaxDegree }

ValidFunctions == { f \in Functions : f.tdim <= f.gdim }

\* The functions a sequence passed to plot is drawn from: one per route.
SeqFunctions ==
    { f \in ValidFunctions :
        \/ f.gdim = 1 /\ f.degree \in {1, 4}
        \/ f.gdim = 2 /\ f.cell = "triangle" /\ f.degree = 1
        \/ f.gdim = 3 /\ f.cell = "tetrahedron" /\ f.degree = 1 }

Kwargs == [bezier : BOOLEAN, contour : BOOLEAN]

AsFunction(f) == [kind |-> "Function", f |-> f]
AsList(fs) == [kind |-> "list", fs |-> fs]

\* ------------------------------------------------------------ external facts
\* Python's int() truncates toward zero; \div rounds toward minus infinity.
IntTruncFloor(num, den) == num \div den

IntTrunc(num, den) == IF num >= 0 THEN num \div den ELSE -((-num) \div den)

\* Python's seq[i]: a negative index counts from the end.
PyIndexOk(seq, i) == -Len(seq) <= i /\ i < Len(seq)

PyIndex(seq, i) == IF i >= 0 THEN seq[i + 1] ELSE seq[Len(seq) + i + 1]

\* ------------------------------------------------- reference-cell dispatches
\* The shapes _calculate_points has a sampling grid for.
HasSamplingGrid(cell) == cell \in {"interval", "quadrilateral", "triangle"}

\* The shapes two_dimension_triangle_Z has a base triangulation for.
HasBaseTriangulation(cell) == cell \in {"triangle", "quadrilateral"}

\* The path codes bezier_plot knows: one list per degree.
BezierCodes ==
    [d \in {1, 2, 3} |->
        CASE d = 1 -> <<"MOVETO", "LINETO">>
          [] d = 2 -> <<"MOVETO", "CURVE3", "CURVE3">>
          [] d = 3 -> <<"MOVETO", "CURVE4", "CURVE4", "CURVE4">>]

\* ------------------------------------------------------------- the renderers
\* bezier_plot: degree 0 is re-interpolated onto DG1 and plotted again; the
\* control points are computed for any degree (the collocation matrix of
\* distinct nodes is invertible); the path codes exist for degrees 1..3 only.
RECURSIVE bezier_plot(_)
bezier_plot(f) ==
    IF ~mpl THEN Raise("MissingDependency", <<"bezier_plot">>)
    ELSE IF f.degree = 0
         THEN LET r == bezier_plot([f EXCEPT !.degree = 1])
              IN  [r EXCEPT !.calls = <<"bezier_plot">> \o r.calls]
    ELSE IF f.degree \notin DOMAIN BezierCodes
         THEN Raise("KeyError", <<"bezier_plot">>)
    ELSE Figure(<<"bezier_plot">>)

interp_bezier(f, num_sample_points) ==
    IF ~mpl THEN Raise("MissingDependency", <<"interp_bezier">>)
    ELSE Figure(<<"interp_bezier">>)

\* The outcome of two_dimension_triangle_Z as its callers see it.
TriangleZRaises(f) ==
    IF ~mpl THEN "MissingDependency"
    ELSE IF ~HasBaseTriangulation(f.cell) THEN "Unsupported"
    ELSE ""

two_dimension_surface(f, num_sample_points) ==
    IF ~mpl THEN Raise("MissingDependency", <<"two_dimension_surface">>)
    ELSE IF TriangleZRaises(f) # ""
         THEN Raise(TriangleZRaises(f), <<"two_dimension_surface">>)
    ELSE Figure(<<"two_dimension_surface">>)

two_dimension_contour(f, num_sample_points) ==
    IF ~mpl THEN Raise("MissingDependency", <<"two_dimension_contour">>)
    ELSE IF TriangleZRaises(f) # ""
         THEN Raise(TriangleZRaises(f), <<"two_dimension_contour">>)
    ELSE Figure(<<"two_dimension_contour">>)

\* plot's 1D branch past the degree test: uniform sampling, drawn as a
\* polyline or, with the bezier flag, as cubic segments.
BezierSamplePoints(n) == IF n >= 4 THEN (n \div 3) * 3 + 1 ELSE 4

LinePlot(f, num_sample_points, bezier) ==
    LET n == IF bezier THEN BezierSamplePoints(num_sample_points)
             ELSE num_sample_points
    IN  IF ~HasSamplingGrid(f.cell) THEN Raise("Unsupported", <<"line_plot">>)
        ELSE IF bezier THEN interp_bezier(f, n)
        ELSE Figure(<<"line_plot">>)

\* The degree test of plot's 1D branch.
UseBezierUpTo4(degree) == degree <= 4

UseBezier(degree) == degree < 4

\* ----------------------------------------------------- plot and _plot_mult
RECURSIVE plot(_, _, _)
RECURSIVE update(_, _, _, _)
RECURSIVE plot_mult(_, _, _)

\* update(val) of _plot_mult's closure; val10 is the slider value in tenths.
update(functions, num_points, kwargs, val10) ==
    LET val == IntTrunc(val10 - 1, 10)
    IN  IF ~PyIndexOk(functions, val)
        THEN [idx |-> val, paused |-> FALSE, res |-> Raise("IndexError", <<>>)]
        ELSE LET r == plot(AsFunction(PyIndex(functions, val)), num_points,
                           kwargs)
             IN  [idx |-> val, paused |-> r.ret # "raise", res |-> r]

\* _plot_mult testing the length before it imports matplotlib.
plot_mult_LengthFirst(functions, num_points, kwargs) ==
    IF Len(functions) = 0 THEN ReturnNone(<<"_plot_mult">>)
    ELSE IF ~mpl THEN Raise("MissingDependency", <<"_plot_mult">>)
    ELSE Figure(<<"_plot_mult">>)

plot_mult(functions, num_points, kwargs) ==
    IF ~mpl THEN Raise("MissingDependency", <<"_plot_mult">>)
    ELSE IF Len(functions) = 0 THEN ReturnNone(<<"_plot_mult">>)
    ELSE LET u == update(functions, num_points, kwargs, 0)
         IN  IF u.res.ret = "raise"
             THEN Raise(u.res.err, <<"_plot_mult">> \o u.res.calls)
             ELSE Figure(<<"_plot_mult">> \o u.res.calls)

plot(function, num_sample_points, kwargs) ==
    IF function.kind # "Function"
    THEN plot_mult(function.fs, num_sample_points, kwargs)
    ELSE LET f == function.f
         IN  IF ~mpl THEN Raise("MissingDependency", <<>>)
             ELSE IF f.gdim = f.tdim /\ f.tdim = 1
                  THEN IF UseBezier(f.degree) THEN bezier_plot(f)
                       ELSE LinePlot(f, num_sample_points, kwargs.bezier)
             ELSE IF f.gdim = f.tdim /\ f.tdim = 2
                  THEN IF kwargs.contour
                       THEN two_dimension_contour(f, num_sample_points)
                       ELSE two_dimension_surface(f, num_sample_points)
             ELSE Raise("Unsupported", <<>>)

\* interactive_multiple_plot: the slider starts at index 0 and the host calls
\* display_plot with it; whether the host lets the callback's error out is
\* the host's choice.  The function has no return statement.
display_plot(functions, num_sample_points, kwargs, index) ==
    IF ~PyIndexOk(functions, index) THEN Raise("IndexError", <<>>)
    ELSE plot(AsFunction(PyIndex(functions, index)), num_sample_points, kwargs)

interactive_multiple_plot(functions, num_sample_points, kwargs, hostRaises) ==
    IF ~ipy
    THEN [ret |-> "raise", err |-> "NotInNotebook", calls |-> <<>>,
          shown |-> <<>>]
    ELSE LET d == display_plot(functions, num_sample_points, kwargs, 0)
         IN  IF d.ret = "raise" /\ hostRaises
             THEN [ret |-> "raise", err |-> d.err, calls |-> d.calls,
                   shown |-> <<d>>]
             ELSE [ret |-> "None", err |-> "", calls |-> d.calls,
                   shown |-> <<d>>]

\* --------------------------------------------------------- array helpers
RECURSIVE SumSeq(_)
SumSeq(s) == IF s = <<>> THEN 0 ELSE Head(s) + SumSeq(Tail(s))

\* a[order]: numpy's indexing by an index array (0-based indices).
TakeNone(vals, order) == vals

Take(vals, order) == [i \in 1..Len(order) |-> vals[order[i] + 1]]

\* arr.reshape(-1) of an array indexed (cell, point, component).
Flatten(arr, npts, ncomp) ==
    [k \in 1..(Len(arr) * npts * ncomp) |->
        arr[((k - 1) \div (npts * ncomp)) + 1]
           [(((k - 1) \div ncomp) % npts) + 1]
           [((k - 1) % ncomp) + 1]]

\* np.argsort(x): every index order that sorts x; where values tie the
\* (unstable) sort may leave them in any order.
RECURSIVE ArgSortsOf(_, _)
ArgSortsOf(x, left) ==
    IF left = {} THEN {<<>>}
    ELSE LET least == { i \in left : \A j \in left : x[i + 1] <= x[j + 1] }
         IN  UNION { { <<i>> \o rest : rest \in ArgSortsOf(x, left \ {i}) } :
                     i \in least }

ArgSorts(x) == ArgSortsOf(x, 0..(Len(x) - 1))

\* -------------------------------------------------- Sampling Grid Generator
\* np.linspace(0, 1, num): the numerators of i / (num - 1); num = 1 gives [0].
Linspace(num) == [i \in 1..num |-> i - 1]

LinspaceDen(num) == IF num = 1 THEN 1 ELSE num - 1

FliplrNone(p) == p

\* np.fliplr([p]).reshape(-1): p reversed.
Fliplr(p) == [i \in 1..Len(p) |-> p[Len(p) + 1 - i]]

\* np.array(np.meshgrid(a, b)).T: entry [i][j] is (a[i], b[j]).
MeshgridT(a, b) == [i \in 1..Len(a) |-> [j \in 1..Len(b) |-> <<a[i], b[j]>>]]

\* np.triu_indices(n): the (row, column) pairs with row <= column, by rows.
TriuIndices(n) ==
    SelectSeq([k \in 1..(n * n) |-> <<((k - 1) \div n) + 1, ((k - 1) % n) + 1>>],
              LAMBDA rc : rc[1] <= rc[2])

\* The reference points of _calculate_points, as numerators over
\* LinspaceDen(num_points); ok is FALSE where the code raises.
ReferencePoints(cell, num_points) ==
    LET p == Linspace(num_points)
    IN  CASE cell = "interval" ->
                [ok |-> TRUE, points |-> [i \in 1..num_points |-> <<p[i]>>]]
          [] cell = "quadrilateral" ->
                LET g == MeshgridT(p, p)
                IN  [ok |-> TRUE,
                     points |-> [k \in 1..(num_points * num_points) |->
                                    g[((k - 1) \div num_points) + 1]
                                     [((k - 1) % num_points) + 1]]]
          [] cell = "triangle" ->
                LET g == MeshgridT(p, Fliplr(p))
                    iu == TriuIndices(num_points)
                IN  [ok |-> TRUE,
                     points |-> [k \in 1..Len(iu) |-> g[iu[k][1]][iu[k][2]]]]
          [] OTHER -> [ok |-> FALSE, points |-> <<>>]

\* ----------------------------------------------------------- Field Evaluator
\* fiat_element.tabulate(0, points) of the degree-1 element of the cell:
\* elem[j][l] is basis function j at point l.  With the points given over
\* den the values are over TabScale(cell, den).
Tabulate(cell, points, den) ==
    CASE cell = "interval" ->
            << [l \in 1..Len(points) |-> den - points[l][1]],
               [l \in 1..Len(points) |-> points[l][1]] >>
      [] cell = "triangle" ->
            << [l \in 1..Len(points) |-> den - points[l][1] - points[l][2]],
               [l \in 1..Len(points) |-> points[l][1]],
               [l \in 1..Len(points) |-> points[l][2]] >>
      [] cell = "quadrilateral" ->
            << [l \in 1..Len(points) |->
                    (den - points[l][1]) * (den - points[l][2])],
               [l \in 1..Len(points) |-> (den - points[l][1]) * points[l][2]],
               [l \in 1..Len(points) |-> points[l][1] * (den - points[l][2])],
               [l \in 1..Len(points) |-> points[l][1] * points[l][2]] >>

TabScale(cell, den) == IF cell = "quadrilateral" THEN den * den ELSE den

NoMask == [none |-> TRUE, m |-> <<>>]

\* ma.compress_rows: the rows of the masked cells are dropped.
CompressRows(cell_node_list, m) ==
    LET kept == SelectSeq([c \in 1..Len(cell_node_list) |-> c],
                          LAMBDA c : ~m[c])
    IN  [i \in 1..Len(kept) |-> cell_node_list[kept[i]]]

VecLength(ufl_shape) == IF ufl_shape = <<>> THEN 1 ELSE ufl_shape[1]

\* _calculate_values: values[cell][point][component], over the scale of elem.
\* function is [cell_node_list, dat, ufl_shape]; dat holds one tuple of
\* components per degree of freedom.
calculate_values(function, cell, points, den, cell_mask) ==
    LET elem == Tabulate(cell, points, den)
        cnl == IF cell_mask.none THEN function.cell_node_list
               ELSE CompressRows(function.cell_node_list, cell_mask.m)
        vec_length == VecLength(function.ufl_shape)
    IN  [i \in 1..Len(cnl) |->
            [l \in 1..Len(points) |->
                [k \in 1..vec_length |->
                    SumSeq([j \in 1..Len(elem) |->
                                function.dat[cnl[i][j]][k] * elem[j][l]])]]]

\* _calculate_points: (x_vals, y_vals) at the reference points of the mesh's
\* cell; evaluations counts the calls of _calculate_values made.
calculate_points(mesh, function, num_points, cell_mask) ==
    LET ref == ReferencePoints(mesh.cell, num_points)
        den == LinspaceDen(num_points)
    IN  IF ~ref.ok
        THEN [ret |-> "raise", err |-> "Unsupported", points |-> <<>>,
              evaluations |-> 0, x_vals |-> <<>>, y_vals |-> <<>>]
        ELSE [ret |-> "values", err |-> "", points |-> ref.points,
              evaluations |-> 2,
              y_vals |-> calculate_values(function, mesh.cell, ref.points,
                                          den, cell_mask),
              x_vals |-> calculate_values(mesh.coordinates, mesh.cell,
                                          ref.points, den, cell_mask)]

\* calculate_one_dim_points with the index order argsort returned.
calculate_one_dim_points(mesh, function, num_points, cell_mask, order) ==
    LET p == calculate_points(mesh, function, num_points, cell_mask)
        x_vals == Flatten(p.x_vals, num_points,
                          VecLength(mesh.coordinates.ufl_shape))
        y_vals == Flatten(p.y_vals, num_points, VecLength(function.ufl_shape))
    IN  <<Take(x_vals, order), Take(y_vals, order)>>

\* The x_vals calculate_one_dim_points hands to argsort.
OneDimKeys(mesh, function, num_points, cell_mask) ==
    Flatten(calculate_points(mesh, function, num_points, cell_mask).x_vals,
            num_points, VecLength(mesh.coordinates.ufl_shape))

\* ------------------------------------------------------ Triangulation Builder
\* b ** e as Python computes it (0 ** 0 is 1).
RECURSIVE Pow(_, _)
Pow(b, e) == IF e = 0 THEN 1 ELSE b * Pow(b, e - 1)

\* The integer part of sqrt(n), and of the base-4 logarithm of m >= 1.
ISqrt(n) == CHOOSE r \in 0..n : r * r <= n /\ n < (r + 1) * (r + 1)

RECURSIVE IntLog4(_)
IntLog4(m) == IF m < 4 THEN 0 ELSE 1 + IntLog4(m \div 4)

SubTrianglesNoSqrt(num_sample_points) == IntLog4(num_sample_points)

\* int(log(sqrt(num_sample_points), 4)).  A power of 4 is an integer, so it
\* is at most sqrt(n) exactly when it is at most the integer part of sqrt(n).
SubTriangles(num_sample_points) == IntLog4(ISqrt(num_sample_points))

\* Triangulation(x, y) of the reference vertices: the Delaunay triangulation,
\* one triangle for the triangle and two for the square, which has two
\* Delaunay triangulations, one per diagonal.
BaseTriangulation(cell, diagonal) ==
    CASE cell = "triangle" ->
            [x |-> <<0, 0, 1>>, y |-> <<0, 1, 0>>,
             triangles |-> << <<0, 2, 1>> >>]
      [] cell = "quadrilateral" ->
            [x |-> <<0, 0, 1, 1>>, y |-> <<0, 1, 0, 1>>,
             triangles |-> IF diagonal = 0
                           THEN << <<0, 2, 1>>, <<1, 2, 3>> >>
                           ELSE << <<0, 3, 1>>, <<0, 2, 3>> >>]

Edge(a, b) == IF a < b THEN <<a, b>> ELSE <<b, a>>

EdgesOf(triangles) ==
    UNION { { Edge(triangles[t][1], triangles[t][2]),
              Edge(triangles[t][2], triangles[t][3]),
              Edge(triangles[t][3], triangles[t][1]) } : t \in DOMAIN triangles }

RECURSIVE SortedEdges(_)
SortedEdges(E) ==
    IF E = {} THEN <<>>
    ELSE LET m == CHOOSE e \in E :
                    \A f \in E : e[1] < f[1] \/ (e[1] = f[1] /\ e[2] <= f[2])
         IN  <<m>> \o SortedEdges(E \ {m})

\* One uniform refinement: a new vertex at the middle of every edge, and
\* every triangle split into four.  Coordinates are kept as integers, so
\* one refinement doubles their scale.
RefineOnce(tri) ==
    LET npts == Len(tri.x)
        edges == SortedEdges(EdgesOf(tri.triangles))
        mid(a, b) == npts - 1
                     + (CHOOSE i \in 1..Len(edges) : edges[i] = Edge(a, b))
        child(t, k) ==
            LET a == tri.triangles[t][1]
                b == tri.triangles[t][2]
                c == tri.triangles[t][3]
            IN  CASE k = 0 -> <<a, mid(a, b), mid(c, a)>>
                  [] k = 1 -> <<b, mid(b, c), mid(a, b)>>
                  [] k = 2 -> <<c, mid(c, a), mid(b, c)>>
                  [] k = 3 -> <<mid(a, b), mid(b, c), mid(c, a)>>
    IN  [x |-> [i \in 1..(npts + Len(edges)) |->
                    IF i <= npts THEN 2 * tri.x[i]
                    ELSE tri.x[edges[i - npts][1] + 1]
                         + tri.x[edges[i - npts][2] + 1]],
         y |-> [i \in 1..(npts + Len(edges)) |->
                    IF i <= npts THEN 2 * tri.y[i]
                    ELSE tri.y[edges[i - npts][1] + 1]
                         + tri.y[edges[i - npts][2] + 1]],
         triangles |-> [k \in 1..(4 * Len(tri.triangles)) |->
                            child(((k - 1) \div 4) + 1, (k - 1) % 4)]]

\* UniformTriRefiner(base).refine_triangulation(False, subdiv).
RECURSIVE refine_triangulation(_, _)
refine_triangulation(tri, subdiv) ==
    IF subdiv = 0 THEN tri
    ELSE refine_triangulation(RefineOnce(tri), subdiv - 1)

MaxIndex(triangles) ==
    CHOOSE m \in { triangles[t][k] : t \in DOMAIN triangles, k \in 1..3 } :
        \A t \in DOMAIN triangles, k \in 1..3 : triangles[t][k] <= m

NumVertsNoPlusOne(triangles) == MaxIndex(triangles)

\* num_verts = triangles.max() + 1
NumVerts(triangles) == MaxIndex(triangles) + 1

\* two_dimension_triangle_Z: the global triangulation (X, Y, all_triangles)
\* and the values Z; X, Y and Z are over the scale of the tabulation.
two_dimension_triangle_Z(mesh, function, num_sample_points, diagonal) ==
    LET none == [depth |-> 0, triangles |-> <<>>, npoints |-> 0,
                 num_verts |-> 0, X |-> <<>>, Y |-> <<>>, Z |-> <<>>,
                 all_triangles |-> <<>>]
    IN  IF ~mpl
        THEN [ret |-> "raise", err |-> "MissingDependency", tri |-> none]
        ELSE IF ~HasBaseTriangulation(mesh.cell)
        THEN [ret |-> "raise", err |-> "Unsupported", tri |-> none]
        ELSE
        LET base_tri == BaseTriangulation(mesh.cell, diagonal)
            sub_triangles == SubTriangles(num_sample_points)
            tri == refine_triangulation(base_tri, sub_triangles)
            triangles == tri.triangles
            num_verts == NumVerts(triangles)
            num_cells == Len(function.cell_node_list)
            ref_points == [i \in 1..Len(tri.x) |-> <<tri.x[i], tri.y[i]>>]
            den == Pow(2, sub_triangles)
            z_vals == calculate_values(function, mesh.cell, ref_points, den,
                                       NoMask)
            coords_vals == calculate_values(mesh.coordinates, mesh.cell,
                                            ref_points, den, NoMask)
            flat == Flatten(coords_vals, Len(ref_points), 2)
        IN  [ret |-> "values", err |-> "",
             tri |-> [depth |-> sub_triangles,
                      triangles |-> triangles,
                      npoints |-> Len(ref_points),
                      num_verts |-> num_verts,
                      Z |-> Flatten(z_vals, Len(ref_points),
                                    VecLength(function.ufl_shape)),
                      X |-> [k \in 1..(Len(flat) \div 2) |-> flat[2 * k - 1]],
                      Y |-> [k \in 1..(Len(flat) \div 2) |-> flat[2 * k]],
                      all_triangles |->
                        [k \in 1..(num_cells * Len(triangles)) |->
                            LET c == (k - 1) \div Len(triangles)
                                t == triangles[((k - 1) % Len(triangles)) + 1]
                            IN  <<t[1] + c * num_verts, t[2] + c * num_verts,
                                  t[3] + c * num_verts>>]]]

\* -------------------------------------------------------- Bezier Reconstructor
RECURSIVE Factorial(_)
Factorial(n) == IF n = 0 THEN 1 ELSE n * Factorial(n - 1)

\* _bernstein with the roles of k and n - k exchanged.
bernstein_Exchanged(xn, xd, k, n) ==
    ((Factorial(n) \div Factorial(k)) \div Factorial(n - k))
        * Pow(xn, n - k) * Pow(xd - xn, k)

\* _bernstein(x, k, n) at x = xn / xd: the numerator over Pow(xd, n).
bernstein(xn, xd, k, n) ==
    ((Factorial(n) \div Factorial(k)) \div Factorial(n - k))
        * Pow(xn, k) * Pow(xd - xn, n - k)

\* The matrix without row r and column c.
Minor(m, r, c) ==
    [i \in 1..(Len(m) - 1) |->
        [j \in 1..(Len(m) - 1) |->
            m[IF i < r THEN i ELSE i + 1][IF j < c THEN j ELSE j + 1]]]

RECURSIVE Det(_)
Det(m) ==
    IF Len(m) = 0 THEN 1
    ELSE SumSeq([j \in 1..Len(m) |->
                    (IF j % 2 = 1 THEN 1 ELSE -1) * m[1][j]
                        * Det(Minor(m, 1, j))])

\* The adjugate: np.linalg.inv(m) is Adjugate(m) / Det(m).
Adjugate(m) ==
    [i \in 1..Len(m) |->
        [j \in 1..Len(m) |->
            (IF (i + j) % 2 = 0 THEN 1 ELSE -1) * Det(Minor(m, j, i))]]

\* _bezier_calculate_points of a function of degree deg whose j-th degree of
\* freedom sits at nodes[j] / deg.  M is given by its numerators over
\* Pow(deg, deg); a control point is the fraction num / den.
bezier_calculate_points(function, deg, nodes) ==
    LET M == [i \in 1..(deg + 1) |->
                [j \in 1..(deg + 1) |-> bernstein(nodes[j], deg, i - 1, deg)]]
        scale == Pow(deg, deg)
        adj == Adjugate(M)
        det == Det(M)
        cnl == function.cell_node_list
    IN  [M |-> M, scale |-> scale,
         points |->
            [c \in 1..Len(cnl) |->
                [i \in 1..(deg + 1) |->
                    [num |-> scale
                             * SumSeq([j \in 1..(deg + 1) |->
                                        function.dat[cnl[c][j]][1] * adj[j][i]]),
                     den |-> det]]]]

\* ------------------------------------------------------- meshes and fields
\* The meshes and fields the numerical operations are run on: a row of unit
\* cells, cell c being the reference cell moved c - 1 to the right.
RefNodes(cell) ==
    CASE cell = "interval" -> << <<0>>, <<1>> >>
      [] cell = "triangle" -> << <<0, 0>>, <<1, 0>>, <<0, 1>> >>
      [] cell = "quadrilateral" -> << <<0, 0>>, <<0, 1>>, <<1, 0>>, <<1, 1>> >>
      [] OTHER -> <<>>

\* The node numbering of a discontinuous space: every cell has its own nodes.
OwnNodes(ncells, nnodes) ==
    [c \in 1..ncells |-> [j \in 1..nnodes |-> (c - 1) * nnodes + j]]

\* An interval mesh with shared vertices; reversed lists the cells from the
\* right, each running right to left.
IntervalMesh(ncells, reversed) ==
    [cell |-> "interval",
     coordinates |->
        [cell_node_list |->
            [c \in 1..ncells |->
                IF reversed THEN <<ncells + 2 - c, ncells + 1 - c>>
                ELSE <<c, c + 1>>],
         dat |-> [i \in 1..(ncells + 1) |-> <<i - 1>>],
         ufl_shape |-> <<1>>]]

PlaneMesh(cell, ncells) ==
    LET nodes == RefNodes(cell)
        nn == Len(nodes)
    IN  [cell |-> cell,
         coordinates |->
            [cell_node_list |-> OwnNodes(ncells, nn),
             dat |-> [i \in 1..(ncells * nn) |->
                        <<nodes[((i - 1) % nn) + 1][1] + ((i - 1) \div nn),
                          nodes[((i - 1) % nn) + 1][2]>>],
             ufl_shape |-> <<2>>]]

MeshOf(cell, ncells) ==
    IF cell = "interval" THEN IntervalMesh(ncells, FALSE)
    ELSE PlaneMesh(cell, ncells)

\* A degree-1 discontinuous field with the given scalar nodal values; with
\* two components the second is one minus the first.
FieldOfValues(ncells, nnodes, vals, ufl_shape) ==
    [cell_node_list |-> OwnNodes(ncells, nnodes),
     dat |-> [i \in 1..(ncells * nnodes) |->
                IF VecLength(ufl_shape) = 1 THEN <<vals[i]>>
                ELSE <<vals[i], 1 - vals[i]>>],
     ufl_shape |-> ufl_shape]

\* The field whose nodal values are coordinate comp of the mesh ("x", "y"),
\* or the position vector itself ("position").
FieldOfCoordinate(mesh, ncells, which) ==
    LET co == mesh.coordinates
        nn == Len(RefNodes(mesh.cell))
        at(i) == co.dat[co.cell_node_list[((i - 1) \div nn) + 1]
                                         [((i - 1) % nn) + 1]]
    IN  [cell_node_list |-> OwnNodes(ncells, nn),
         dat |-> [i \in 1..(ncells * nn) |->
                    CASE which = "x" -> <<at(i)[1]>>
                      [] which = "y" -> <<at(i)[2]>>
                      [] which = "position" -> at(i)],
         ufl_shape |-> IF which = "position" THEN co.ufl_shape ELSE <<>>]

\* ------------------------------------------------------------------- state
\* mpl, ipy : whether matplotlib / ipywidgets can be imported
\* call     : the call under observation, [op, arg, ..., res]; "init" before
\*            it is made.  Calls share no state of this module, so one call
\*            is followed at a time: Forget drops it and its figure.
\* widget   : the slider of the figure that call's _plot_mult built
\* play     : auto_play's position: pc, curr, the frames it rendered and the
\*            half-second pauses it took
SeqsUpTo(S, n) == UNION { [1..k -> S] : k \in 0..n }

NoWidget ==
    [live |-> FALSE, functions |-> <<>>, num_points |-> 0,
     kwargs |-> [bezier |-> FALSE, contour |-> FALSE],
     val10 |-> 0, valtext |-> 0, err |-> ""]

IdlePlay == [pc |-> "idle", curr |-> 0, frames |-> <<>>, pauses |-> 0]

Init ==
    /\ mpl \in BOOLEAN
    /\ ipy \in BOOLEAN
    /\ call = [op |-> "init"]
    /\ widget = NoWidget
    /\ play = IdlePlay

\* plot(function) with a single Function.
CallPlot ==
    /\ call.op = "init"
    /\ \E f \in ValidFunctions, n \in 1..MaxPlotPoints, kw \in Kwargs :
           /\ call' = [op |-> "plot", arg |-> AsFunction(f), n |-> n, kw |-> kw,
                       res |-> plot(AsFunction(f), n, kw)]
           /\ UNCHANGED <<mpl, ipy, widget, play>>

\* plot(functions) with a sequence: _plot_mult, whose figure carries the
\* slider and the Play button, already showing functions[0].
CallPlotList ==
    /\ call.op = "init"
    /\ \E fs \in SeqsUpTo(SeqFunctions, MaxFuncs), n \in 1..MaxPlotPoints,
          kw \in Kwargs :
           LET r == plot(AsList(fs), n, kw)
           IN  /\ call' = [op |-> "plot", arg |-> AsList(fs), n |-> n, kw |-> kw,
                           res |-> r]
               /\ IF r.ret = "figure"
                  THEN /\ widget' = [live |-> TRUE, functions |-> fs,
                                     num_points |-> n, kwargs |-> kw, val10 |-> 0,
                                     valtext |-> update(fs, n, kw, 0).idx,
                                     err |-> ""]
                       /\ play' = IdlePlay
                  ELSE UNCHANGED <<widget, play>>
               /\ UNCHANGED <<mpl, ipy>>

\* interactive_multiple_plot(functions).
CallInteractive ==
    /\ call.op = "init"
    /\ \E fs \in SeqsUpTo(SeqFunctions, MaxFuncs), n \in 1..MaxPlotPoints,
          kw \in Kwargs, hostRaises \in BOOLEAN :
           /\ call' = [op |-> "interactive_multiple_plot", arg |-> AsList(fs),
                       n |-> n, kw |-> kw,
                       res |-> interactive_multiple_plot(fs, n, kw, hostRaises)]
           /\ UNCHANGED <<mpl, ipy, widget, play>>

\* bezier_plot(function) called directly on a 1D function.
CallBezierPlot ==
    /\ call.op = "init"
    /\ \E f \in { g \in ValidFunctions : g.tdim = 1 } :
           /\ call' = [op |-> "bezier_plot", arg |-> AsFunction(f),
                       res |-> bezier_plot(f)]
           /\ UNCHANGED <<mpl, ipy, widget, play>>

\* The 2D renderers and interp_bezier called directly.
CallRenderer ==
    /\ call.op = "init"
    /\ \E f \in ValidFunctions, n \in 1..MaxPlotPoints,
          name \in {"two_dimension_surface", "two_dimension_contour",
                    "interp_bezier"} :
           /\ name = "interp_bezier" => f.tdim = 1
           /\ call' = [op |-> name, arg |-> AsFunction(f), n |-> n,
                       res |-> CASE name = "two_dimension_surface" ->
                                       two_dimension_surface(f, n)
                                 [] name = "two_dimension_contour" ->
                                       two_dimension_contour(f, n)
                                 [] name = "interp_bezier" ->
                                       interp_bezier(f, BezierSamplePoints(n))]
           /\ UNCHANGED <<mpl, ipy, widget, play>>

\* _calculate_points on a mesh of each cell shape, for the field x.
CallCalculatePoints ==
    /\ call.op = "init"
    /\ \E cell \in Cells, ncells \in 1..MaxCells, n \in 1..MaxNumPoints :
           LET mesh == MeshOf(cell, ncells)
               function == IF HasSamplingGrid(cell)
                           THEN FieldOfCoordinate(mesh, ncells, "x")
                           ELSE FieldOfValues(ncells, 0, <<>>, <<>>)
           IN  /\ call' = [op |-> "_calculate_points", cell |-> cell,
                           ncells |-> ncells, n |-> n,
                           res |-> calculate_points(mesh, function, n, NoMask)]
               /\ UNCHANGED <<mpl, ipy, widget, play>>

\* The cell masks tried: none, nothing masked, one cell masked.
CellMasks(ncells) ==
    {NoMask} \cup { [none |-> FALSE, m |-> [c \in 1..ncells |-> c = k]] :
                    k \in 0..ncells }

\* calculate_one_dim_points on an interval mesh.
CallOneDimPoints ==
    /\ call.op = "init"
    /\ \E ncells \in 1..MaxCells, reversed \in BOOLEAN, n \in 1..MaxNumPoints,
          ufl_shape \in {<<>>, <<2>>} :
         \E vals \in [1..(2 * ncells) -> {0, 1}], cell_mask \in CellMasks(ncells) :
           LET mesh == IntervalMesh(ncells, reversed)
               function == FieldOfValues(ncells, 2, vals, ufl_shape)
           IN  /\ \E order \in ArgSorts(OneDimKeys(mesh, function, n, cell_mask)) :
                   call' = [op |-> "calculate_one_dim_points", ncells |-> ncells,
                            reversed |-> reversed, n |-> n, vals |-> vals,
                            ufl_shape |-> ufl_shape, cell_mask |-> cell_mask,
                            res |-> calculate_one_dim_points(mesh, function, n,
                                                             cell_mask, order)]
               /\ UNCHANGED <<mpl, ipy, widget, play>>

\* two_dimension_triangle_Z on a mesh of each cell shape.
CallTriangleZ ==
    /\ call.op = "init"
    /\ \E cell \in Cells \ {"interval"}, ncells \in 1..MaxCells,
          n \in 1..MaxSamplePoints, which \in {"x", "y", "position"},
          diagonal \in {0, 1} :
           LET mesh == MeshOf(cell, ncells)
               function == IF HasBaseTriangulation(cell)
                           THEN FieldOfCoordinate(mesh, ncells, which)
                           ELSE FieldOfValues(ncells, 0, <<>>, <<>>)
           IN  /\ cell # "quadrilateral" => diagonal = 0
               /\ ~HasBaseTriangulation(cell) => which = "x"
               /\ call' = [op |-> "two_dimension_triangle_Z", cell |-> cell,
                           ncells |-> ncells, n |-> n, which |-> which,
                           diagonal |-> diagonal,
                           res |-> two_dimension_triangle_Z(mesh, function, n,
                                                            diagonal)]
               /\ UNCHANGED <<mpl, ipy, widget, play>>

\* The degrees _bezier_calculate_points is documented for, and the orders
\* the dual basis may list the equispaced nodes in: ascending, end points
\* first, descending.
BezierDegrees == DOMAIN BezierCodes

NodeOrders(deg) ==
    { [j \in 1..(deg + 1) |-> j - 1],
      [j \in 1..(deg + 1) |-> IF j = 1 THEN 0 ELSE IF j = 2 THEN deg ELSE j - 2],
      [j \in 1..(deg + 1) |-> deg + 1 - j] }

\* _bezier_calculate_points on a field whose nodal values are vals in the
\* first cell and one more in each next cell.
CallBezierPoints ==
    /\ call.op = "init"
    /\ \E deg \in BezierDegrees, ncells \in 1..MaxCells :
         \E nodes \in NodeOrders(deg), vals \in [1..(deg + 1) -> {0, 1, 2}] :
           LET function ==
                   FieldOfValues(ncells, deg + 1,
                                 [i \in 1..(ncells * (deg + 1)) |->
                                     vals[((i - 1) % (deg + 1)) + 1]
                                     + ((i - 1) \div (deg + 1))],
                                 <<>>)
           IN  /\ call' = [op |-> "_bezier_calculate_points", deg |-> deg,
                           ncells |-> ncells, nodes |-> nodes, vals |-> vals,
                           res |-> bezier_calculate_points(function, deg, nodes)]
               /\ UNCHANGED <<mpl, ipy, widget, play>>

\* The slider positions a user can reach lie between valmin = 0.1 and
\* valmax = len; the model moves it, in tenths, to the two ends and the
\* middle of every unit.
SliderTenths(n) == { t \in 1..(10 * n) : t % 10 \in {0, 1, 5} }

\* The user moves the slider: on_changed runs update(val).
SliderChanged ==
    /\ widget.live
    /\ \E t \in SliderTenths(Len(widget.functions)) :
        LET u == update(widget.functions, widget.num_points, widget.kwargs, t)
        IN  widget' = [widget EXCEPT !.val10 = t, !.valtext = u.idx,
                                     !.err = u.res.err]
    /\ UNCHANGED <<mpl, ipy, call, play>>

\* The Play button is clicked: auto_play starts with curr = 0.
PlayClicked ==
    /\ widget.live
    /\ play.pc # "loop"
    /\ play' = [pc |-> "loop", curr |-> 0, frames |-> <<>>, pauses |-> 0]
    /\ UNCHANGED <<mpl, ipy, call, widget>>

\* One turn of auto_play's loop: curr += 1; set_val(curr) runs update(curr);
\* then pause(0.5).  An error of update leaves the loop.
PlayStep ==
    /\ play.pc = "loop"
    /\ play.curr < Len(widget.functions)
    /\ LET curr == play.curr + 1
           u == update(widget.functions, widget.num_points, widget.kwargs,
                       10 * curr)
       IN  /\ widget' = [widget EXCEPT !.val10 = 10 * curr, !.valtext = u.idx,
                                       !.err = u.res.err]
           /\ play' = IF u.res.ret = "raise"
                      THEN [play EXCEPT !.pc = "aborted", !.curr = curr]
                      ELSE [play EXCEPT !.curr = curr,
                                        !.frames = Append(@, u.idx),
                                        !.pauses = @ + 1]
    /\ UNCHANGED <<mpl, ipy, call>>

\* auto_play's loop test fails: the handler returns.
PlayReturn ==
    /\ play.pc = "loop"
    /\ play.curr >= Len(widget.functions)
    /\ play' = [play EXCEPT !.pc = "done"]
    /\ UNCHANGED <<mpl, ipy, call, widget>>

\* The caller drops the result and closes the figure.
Forget ==
    /\ call.op # "init"
    /\ call' = [op |-> "init"]
    /\ widget' = NoWidget
    /\ play' = IdlePlay
    /\ UNCHANGED <<mpl, ipy>>

Next ==
    \/ CallPlot
    \/ CallPlotList
    \/ CallInteractive
    \/ CallBezierPlot
    \/ CallRenderer
    \/ CallCalculatePoints
    \/ CallOneDimPoints
    \/ CallTriangleZ
    \/ CallBezierPoints
    \/ SliderChanged
    \/ PlayClicked
    \/ PlayStep
    \/ PlayReturn
    \/ Forget

Spec == Init /\ [][Next]_vars

\* ==================================================================== claims
IsPlotOfFunction == call.op = "plot" /\ call.arg.kind = "Function"

\* C1: with matplotlib present, plot on a single Function goes to
\* bezier_plot when gdim = tdim = 1 and degree < 4; to the uniform-sampling
\* line plot, or to interp_bezier under the bezier flag, when gdim = tdim = 1
\* and degree >= 4; to two_dimension_contour under the contour flag and
\* otherwise to two_dimension_surface when gdim = tdim = 2; and for every
\* other (gdim, tdim) it raises "Unsupported" having entered no renderer.
C1_Route ==
    (IsPlotOfFunction /\ mpl) =>
        LET f == call.arg.f
            r == call.res
        IN  /\ (f.gdim = 1 /\ f.tdim = 1 /\ f.degree < 4) =>
                    (r.calls # <<>> /\ r.calls[1] = "bezier_plot"
                     /\ \A i \in DOMAIN r.calls : r.calls[i] = "bezier_plot")
            /\ (f.gdim = 1 /\ f.tdim = 1 /\ f.degree >= 4 /\ ~call.kw.bezier) =>
                    (r.calls = <<"line_plot">> /\ r.ret = "figure")
            /\ (f.gdim = 1 /\ f.tdim = 1 /\ f.degree >= 4 /\ call.kw.bezier) =>
                    (r.calls = <<"interp_bezier">> /\ r.ret = "figure")
            /\ (f.gdim = 2 /\ f.tdim = 2 /\ call.kw.contour) =>
                    r.calls = <<"two_dimension_contour">>
            /\ (f.gdim = 2 /\ f.tdim = 2 /\ ~call.kw.contour) =>
                    r.calls = <<"two_dimension_surface">>
            /\ ~(f.gdim = f.tdim /\ f.tdim \in {1, 2}) =>
                    (r.ret = "raise" /\ r.err = "Unsupported" /\ r.calls = <<>>)

C1_Witness ==
    /\ IsPlotOfFunction /\ mpl
    /\ call.arg.f.gdim = 1 /\ call.arg.f.tdim = 1 /\ call.arg.f.degree = 4
    /\ call.kw.bezier
    /\ call.res.calls = <<"interp_bezier">>

C3_FigureOrRaise ==
    call.op \in {"plot", "bezier_plot", "interp_bezier",
                 "two_dimension_surface", "two_dimension_contour"} =>
        call.res.ret \in {"figure", "raise"}

\* C4 as stated: bezier_plot called on a 1D function raises "Unsupported" for
\* every degree >= 4 and returns a figure for degrees 0..3, degree 0 entering
\* bezier_plot exactly once more.
C4_BezierDegree ==
    (call.op = "bezier_plot" /\ mpl) =>
        LET f == call.arg.f
            r == call.res
        IN  /\ f.degree >= 4 => (r.ret = "raise" /\ r.err = "Unsupported")
            /\ f.degree \in 1..3 =>
                    (r.ret = "figure" /\ r.calls = <<"bezier_plot">>)
            /\ f.degree = 0 =>
                    (r.ret = "figure"
                     /\ r.calls = <<"bezier_plot", "bezier_plot">>)

\* Every function of the widget's sequence can be drawn.
AllRenderable ==
    \A i \in DOMAIN widget.functions :
        plot(AsFunction(widget.functions[i]), widget.num_points,
             widget.kwargs).ret # "raise"

C7_SamplingGrid ==
    call.op = "_calculate_points" =>
        LET n == call.n
            den == LinspaceDen(n)
            pts == call.res.points
        IN  /\ call.cell = "interval" =>
                /\ call.res.ret = "values"
                /\ Len(pts) = n
                /\ \A k \in 1..Len(pts) : Len(pts[k]) = 1 /\ pts[k][1] \in 0..den
            /\ call.cell = "quadrilateral" =>
                /\ call.res.ret = "values"
                /\ Len(pts) = n * n
                /\ \A k \in 1..Len(pts) :
                        Len(pts[k]) = 2 /\ pts[k][1] \in 0..den
                        /\ pts[k][2] \in 0..den
            /\ call.cell = "triangle" =>
                /\ call.res.ret = "values"
                /\ 2 * Len(pts) = n * (n + 1)
                /\ \A k \in 1..Len(pts) :
                        Len(pts[k]) = 2 /\ pts[k][1] >= 0 /\ pts[k][2] >= 0
                        /\ pts[k][1] + pts[k][2] <= den
            /\ call.cell \notin {"interval", "quadrilateral", "triangle"} =>
                /\ call.res.ret = "raise"
                /\ call.res.err = "Unsupported"
                /\ call.res.evaluations = 0

C7_Witness ==
    /\ call.op = "_calculate_points"
    /\ call.cell = "triangle"
    /\ call.n = 3
    /\ Len(call.res.points) = 6
    /\ \E k \in 1..6 : call.res.points[k] = <<1, 1>>

\* The bag of the elements of a sequence.
BagOfSeq(s) ==
    [e \in { s[i] : i \in DOMAIN s } |->
        Cardinality({ i \in DOMAIN s : s[i] = e })]

\* The (coordinate, value) pairs of the observed calculate_one_dim_points
\* call, computed from the nodal data: at point l of n in cell c both fields
\* are the linear interpolants of the cell's two nodal values.
OneDimPairs ==
    LET n == call.n
        c0 == call.ncells
        den == LinspaceDen(n)
        kept == SelectSeq([c \in 1..c0 |-> c],
                          LAMBDA c : call.cell_mask.none \/ ~call.cell_mask.m[c])
        left(c) == IF call.reversed THEN c0 + 1 - c ELSE c - 1
        right(c) == IF call.reversed THEN c0 - c ELSE c
    IN  [k \in 1..(Len(kept) * n) |->
            LET c == kept[((k - 1) \div n) + 1]
                l == (k - 1) % n
            IN  << (den - l) * left(c) + l * right(c),
                   (den - l) * call.vals[2 * c - 1] + l * call.vals[2 * c] >>]

IsTriangleZ == call.op = "two_dimension_triangle_Z" /\ call.res.ret = "values"

BaseCount == IF call.cell = "quadrilateral" THEN 2 ELSE 1

\* C10 as stated: the depth d used for num_sample_points n gives
\* 4^d sub-triangles per reference triangle and is the largest with
\* 4^d <= n, that is 4^d <= n < 4^(d+1).
C10_LargestNotExceedingN ==
    IsTriangleZ =>
        LET d == call.res.tri.depth
        IN  /\ Len(call.res.tri.triangles) = BaseCount * Pow(4, d)
            /\ Pow(4, d) <= call.n
            /\ call.n < Pow(4, d + 1)

\* C10 amended: the depth d = floor(log4(sqrt(n))) is the largest with
\* 4^d <= sqrt(n), that is 16^d <= n < 16^(d+1), and the refined reference
\* triangulation has 4^d sub-triangles per reference triangle.
C10_DepthOfSqrt ==
    IsTriangleZ =>
        LET d == call.res.tri.depth
        IN  /\ Len(call.res.tri.triangles) = BaseCount * Pow(4, d)
            /\ Pow(4, d) * Pow(4, d) <= call.n
            /\ call.n < Pow(4, d + 1) * Pow(4, d + 1)

C10_Witness ==
    /\ IsTriangleZ
    /\ call.n = 16
    /\ call.res.tri.depth = 1
    /\ call.cell = "triangle"
    /\ Len(call.res.tri.triangles) = 4

\* C9: for degree 1 with the two degrees of freedom at 0 and 1, the matrix M
\* is the identity and the control points of every cell are that cell's
\* nodal values, in the same order.
C9_LinearRoundTrip ==
    (call.op = "_bezier_calculate_points" /\ call.deg = 1
     /\ call.nodes = <<0, 1>>) =>
        LET r == call.res
        IN  /\ r.M = << <<r.scale, 0>>, <<0, r.scale>> >>
            /\ \A c \in 1..call.ncells, i \in 1..2 :
                /\ r.points[c][i].den # 0
                /\ r.points[c][i].num
                        = (call.vals[i] + (c - 1)) * r.points[c][i].den

C9_Witness ==
    /\ call.op = "_bezier_calculate_points" /\ call.deg = 1
    /\ call.nodes = <<0, 1>>
    /\ call.ncells = 2
    /\ call.vals = <<2, 0>>
    /\ call.res.points[2][1].num = 3 * call.res.points[2][1].den

====
